---- MODULE Spec2Model ----
(***************************************************************************)
(* Model of snooty/parser.py: the option block recovery parser             *)
(* (parse_options), the role node builder (role.__init__), the generic    *)
(* directive builder (Directive.run) and the legacy tab syntax migrator    *)
(* (TabsDirective.run), reached through lookup_directive / lookup_role.    *)
(*                                                                         *)
(* Representation.                                                         *)
(*  - A line of block text is a record [indent, kind, key, text]: indent   *)
(*    is the number of leading \x20 characters (PAT_WHITESPACE), kind says *)
(*    what line.strip() is: empty ("blank"), a match of the docutils       *)
(*    field_marker pattern ("marker", with its key and the value fragment  *)
(*    after the marker) or anything else ("text").                         *)
(*  - A multi-line string value is the sequence of its "\n"-separated      *)
(*    fragments: "a\nb\nc" is <<"a", "b", "c">>.                           *)
(*  - A Python dict is a sequence of [k, v] records in insertion order.    *)
(*  - A role text is a sequence of characters over Chars; "NUL" stands for *)
(*    \x00, the escape marker docutils leaves in front of an escaped       *)
(*    character.                                                           *)
(*  - A directive name is a sequence of chunks; the chunk "-" is the       *)
(*    separator character, so <<"tabs", "-", "platforms">> is              *)
(*    tabs-platforms and <<"tabs", "x">> is tabsx.                         *)
(***************************************************************************)
EXTENDS Integers, Sequences, FiniteSets, TLC

VARIABLES
    call,              \* which entry point this run exercises
    pc,                \* position inside the entry point
    lines,             \* parse_options: block_text.split('\n')
    i,                 \* parse_options: loop index (1-based)
    current_key,       \* parse_options: current_key (NoKey is None)
    kv,                \* parse_options: kv
    base_indentation,  \* parse_options: base_indentation
    role_in,           \* handle_role: [name, text, lineno]
    role_node,         \* handle_role: the node built (NoNode before)
    doc,               \* parse: the directives of the document, in order
    pos,               \* parse: the directive the engine is at (1-based)
    cls,               \* parse: the class lookup_directive gave for it
    out                \* parse: per directive run, the nodes returned, the
                       \* errors reported and the bodies handed to nested_parse

vars == <<call, pc, lines, i, current_key, kv, base_indentation, role_in, role_node,
          doc, pos, cls, out>>

----------------------------------------------------------------------------
(* Bounds *)

MaxLines == 3

MaxRoleLen == 5

MaxTabs == 2

----------------------------------------------------------------------------
(* Python dict, insertion ordered *)

NoKey == "<None>"

DictHas(d, k) == \E n \in 1..Len(d) : d[n].k = k

DictGet(d, k) == d[CHOOSE n \in 1..Len(d) : d[n].k = k].v

DictSet(d, k, v) ==
    IF DictHas(d, k)
    THEN [n \in 1..Len(d) |-> IF d[n].k = k THEN [k |-> k, v |-> v] ELSE d[n]]
    ELSE Append(d, [k |-> k, v |-> v])

----------------------------------------------------------------------------
(* parse_options *)

Indents == {0, 3, 6}

Keys == {"key", "other"}

Texts == {"b", "c"}

BlankLine == [indent |-> 0, kind |-> "blank", key |-> NoKey, text |-> ""]

MarkerLines == [indent : Indents, kind : {"marker"}, key : Keys, text : {"a"}]

TextLines == [indent : Indents, kind : {"text"}, key : {NoKey}, text : Texts]

BodyLines == {BlankLine} \cup MarkerLines \cup TextLines

InvocationLine == [indent |-> 0, kind |-> "text", key |-> NoKey, text |-> ".. d::"]

RECURSIVE SeqsUpTo(_, _)
SeqsUpTo(S, n) ==
    IF n = 0 THEN {<<>>}
    ELSE LET shorter == SeqsUpTo(S, n - 1)
         IN  shorter \cup {Append(s, x) : s \in {t \in shorter : Len(t) = n - 1}, x \in S}

BlockTexts == {<<InvocationLine>> \o body : body \in SeqsUpTo(BodyLines, MaxLines)}

\* the comparison of line 100 that ends option recovery, changed to "shallower"
AtBaseIndentationShallower(indentation, base) == indentation < base

\* line 100: indentation == base_indentation
AtBaseIndentation(indentation, base) == indentation = base

\* lines 88-89: if base_indentation == 0: base_indentation = indentation
SetBaseIndentation(base, indentation) == IF base = 0 THEN indentation ELSE base

\* lines 102-103: elif current_key: (reached when indentation != base_indentation);
\* a key is never the empty string (field_marker needs a character between the
\* colons), so the test is current_key is not None
ContinuationAppends(key, indentation, base) == key # NoKey

\* One iteration of the loop of lines 76-103 on a line with index > 0.
\* st is [current_key, kv, base_indentation, stop]; stop is the break.
ScanStep(st, line) ==
    IF line.kind = "blank"
    THEN st
    ELSE LET base == SetBaseIndentation(st.base_indentation, line.indent)
         IN  IF line.kind = "marker"
             THEN [current_key |-> line.key,
                   kv |-> DictSet(st.kv, line.key, <<line.text>>),
                   base_indentation |-> base,
                   stop |-> FALSE]
             ELSE IF AtBaseIndentation(line.indent, base)
             THEN [st EXCEPT !.base_indentation = base, !.stop = TRUE]
             ELSE IF ContinuationAppends(st.current_key, line.indent, base)
             THEN [st EXCEPT !.base_indentation = base,
                             !.kv = DictSet(st.kv, st.current_key,
                                            Append(DictGet(st.kv, st.current_key), line.text))]
             ELSE [st EXCEPT !.base_indentation = base]

ScanInit == [current_key |-> NoKey, kv |-> <<>>, base_indentation |-> 0, stop |-> FALSE]

\* parse_options as a whole: the fold of ScanStep over lines[1:], up to the break
RECURSIVE ScanFrom(_, _, _)
ScanFrom(st, ls, n) ==
    IF n > Len(ls) \/ st.stop THEN st ELSE ScanFrom(ScanStep(st, ls[n]), ls, n + 1)

parse_options(ls) == ScanFrom(ScanInit, ls, 2).kv

----------------------------------------------------------------------------
(* role *)

Chars == {"a", " ", "\n", "<", ">", "NUL"}

Whitespace == {" ", "\n"}

RoleNames == {"ref", "guilabel"}

RoleTexts == SeqsUpTo(Chars, MaxRoleLen)

NoNode == [kind |-> "none"]

\* The ways the pattern of line 17 can match text, as triples <<L, p, e>>:
\*   ^(?P<label>.+?)   label = text[1..L], L >= 1 (DOTALL: any character)
\*   \s*               text[L+1..p-1] is whitespace
\*   (?<!\x00)<        text[p] = "<" and text[p-1] is not the escape marker
\*   (?P<target>.*?)   target = text[p+1..e-1], possibly empty
\*   >$                text[e] = ">", at the end or before one final newline
PatMatches(text) ==
    LET n == Len(text)
    IN  {c \in (1..n) \X (1..n) \X (1..n) :
            /\ c[1] < c[2] /\ c[2] < c[3]
            /\ \A j \in (c[1] + 1)..(c[2] - 1) : text[j] \in Whitespace
            /\ text[c[2]] = "<" /\ text[c[2] - 1] # "NUL"
            /\ text[c[3]] = ">"
            /\ (c[3] = n \/ (c[3] = n - 1 /\ text[n] = "\n"))}

NoMatch == [matched |-> FALSE, label |-> <<>>, target |-> <<>>]

\* the pattern with a greedy label, (?P<label>.+): the longest label wins
PatExplicitTitleGreedy(text) ==
    LET cands == PatMatches(text)
    IN  IF cands = {} THEN NoMatch
        ELSE LET best == CHOOSE c \in cands :
                            \A d \in cands :
                                \/ c[1] > d[1]
                                \/ (c[1] = d[1] /\ c[3] <= d[3])
             IN  [matched |-> TRUE,
                  label |-> SubSeq(text, 1, best[1]),
                  target |-> SubSeq(text, best[2] + 1, best[3] - 1)]

\* the pattern with a target of at least one character, (?P<target>.+?)
PatExplicitTitleNonEmptyTarget(text) ==
    LET cands == {c \in PatMatches(text) : c[3] > c[2] + 1}
    IN  IF cands = {} THEN NoMatch
        ELSE LET best == CHOOSE c \in cands :
                            \A d \in cands :
                                \/ c[1] < d[1]
                                \/ (c[1] = d[1] /\ c[3] <= d[3])
             IN  [matched |-> TRUE,
                  label |-> SubSeq(text, 1, best[1]),
                  target |-> SubSeq(text, best[2] + 1, best[3] - 1)]

\* line 17 and line 55: PAT_EXPLICIT_TILE.match(text), in the backtracking order of
\* re: the lazy label takes the shortest L; given L the greedy \s* leaves one p
\* (text[p] is no whitespace); the lazy target takes the nearest e.
PatExplicitTitle(text) ==
    LET cands == PatMatches(text)
    IN  IF cands = {} THEN NoMatch
        ELSE LET best == CHOOSE c \in cands :
                            \A d \in cands :
                                \/ c[1] < d[1]
                                \/ (c[1] = d[1] /\ c[3] <= d[3])
             IN  [matched |-> TRUE,
                  label |-> SubSeq(text, 1, best[1]),
                  target |-> SubSeq(text, best[2] + 1, best[3] - 1)]

\* lines 50-65: role.__init__
RoleNode(name, text, lineno) ==
    LET match == PatExplicitTitle(text)
    IN  IF match.matched
        THEN [kind |-> "role", name |-> name, raw |-> text,
              label |-> [tagged |-> TRUE, value |-> match.label, line |-> lineno],
              target |-> match.target]
        ELSE [kind |-> "role", name |-> name, raw |-> text,
              label |-> [tagged |-> FALSE, value |-> text, line |-> 0],
              target |-> text]

----------------------------------------------------------------------------
(* Directive.run and TabsDirective.run *)

\* A directive invocation is [name, lineno, arguments, block, content]:
\* arguments holds at most one argument, a sequence of lines; block is
\* block_text.split('\n'); content is a sequence of content entries:
\*   [t |-> "text", indent, s]        a line of text ("" is a blank line)
\*   [t |-> "directive", inv]         a directive block nested in the body
\*   [t |-> "tabs:"]                  the line `tabs:` of the legacy syntax
\*   [t |-> "hidden:", v]             the line `hidden: v` of the legacy syntax
\*   [t |-> "item", line, id, content] one list item under `tabs:`, with the
\*                                     line offset the loader tracks for it

T(ind, str) == [t |-> "text", indent |-> ind, s |-> str]

SPECIAL_DIRECTIVES ==
    {<<"code", "-", "block">>, <<"include">>, <<"tabs", "-", "drivers">>, <<"tabs">>,
     <<"tabs", "-", "platforms">>, <<"only">>}

\* lines 256-259: lookup_directive; startswith('tabs') on the chunks of a name
lookup_directive(name) ==
    IF Len(name) >= 1 /\ name[1] = "tabs" THEN "TabsDirective" ELSE "Directive"

\* Python values stored in an options dict
PyTrue == [py |-> "bool", s |-> <<"True">>]

PyStr(v) == [py |-> "str", s |-> v]

\* parse_options' Dict[str, str] as stored in node['options']
StrDict(d) == [n \in 1..Len(d) |-> [k |-> d[n].k, v |-> PyStr(d[n].v)]]

NoResult == [nodes |-> <<>>, errors |-> <<>>, parses |-> <<>>]

\* lines 154-175: prepare_viewlist(text) with ignore = 1, on text entries
prepare_viewlist(text) ==
    LET after == {n \in 2..Len(text) : text[n].s # ""}
        margin == IF after = {} THEN -1
                  ELSE (CHOOSE n \in after : \A m \in after : text[n].indent <= text[m].indent)
        dedent(n) ==
            IF n = 1 \/ text[n].s = "" THEN T(0, text[n].s)
            ELSE IF after = {} THEN text[n]
            ELSE T(text[n].indent - text[margin].indent, text[n].s)
        based == [n \in 1..Len(text) |-> dedent(n)]
        nonblank == {n \in 1..Len(based) : based[n].s # ""}
        first == IF nonblank = {} THEN Len(based) + 1
                 ELSE CHOOSE n \in nonblank : \A m \in nonblank : n <= m
        kept == SubSeq(based, first, Len(based))
    IN  IF kept # <<>> /\ kept[Len(kept)].s # "" THEN Append(kept, T(0, "")) ELSE kept

\* the loader of the legacy definition: the mapping the content decodes to,
\* every mapping with the line offset tracked for it
load_yaml(content) ==
    LET hid == {n \in 1..Len(content) : content[n].t = "hidden:"}
        its == {n \in 1..Len(content) : content[n].t = "item"}
        RECURSIVE Items(_)
        Items(n) ==
            IF n > Len(content) THEN <<>>
            ELSE IF content[n].t = "item"
                 THEN <<[line |-> content[n].line, id |-> content[n].id,
                         content |-> content[n].content]>> \o Items(n + 1)
                 ELSE Items(n + 1)
    IN  [line |-> 0,
         hidden |-> IF hid = {} THEN "None" ELSE content[CHOOSE n \in hid : TRUE].v,
         tabs |-> Items(1)]

\* check_type(LegacyTabsDefinition, parsed) against the fields of lines 22-36:
\* hidden is Optional[bool], every tab's id is str. A mismatch raises LoadError
\* with bad_data the mapping that holds the mistyped field.
check_type(parsed) ==
    LET bad == {n \in 1..Len(parsed.tabs) : parsed.tabs[n].id.ty # "str"}
    IN  IF parsed.hidden \notin {"None", "true", "false"}
        THEN [ok |-> FALSE, bad_line |-> parsed.line]
        ELSE IF bad # {}
        THEN [ok |-> FALSE,
              bad_line |-> parsed.tabs[CHOOSE n \in bad : \A m \in bad : n <= m].line]
        ELSE [ok |-> TRUE, bad_line |-> 0]

\* the error line without the + 1
ErrorLineOffByOne(lineno, bad_line) == lineno + bad_line

\* line 193: line = self.lineno + getattr(err.bad_data, '__line__', 0) + 1
ErrorLine(lineno, bad_line) == lineno + bad_line + 1

\* line 199: tabset = self.name.split('-', 1)[-1]
Tabset(name) ==
    LET seps == {n \in 1..Len(name) : name[n] = "-"}
    IN  IF seps = {} THEN name
        ELSE SubSeq(name, (CHOOSE n \in seps : \A m \in seps : n <= m) + 1, Len(name))

\* lines 206-212: the options of the migrated node
LegacyOptions(hidden, tabset) ==
    (IF hidden = "true" THEN <<[k |-> "hidden", v |-> PyTrue]>> ELSE <<>>)
    \o (IF tabset # <<>> /\ tabset # <<"tabs">>
        THEN <<[k |-> "tabset", v |-> PyStr(tabset)]>> ELSE <<>>)

\* lines 136-139: raw = docutils.nodes.FixedTextElement(): an element made
\* with no text, given the directive's source and line
RawChild(content, line) == [kind |-> "raw", text |-> <<>>, line |-> line]

\* state.nested_parse(content, ...) of the markup engine, from entry n on: a
\* line of text becomes a paragraph; for a directive block the engine looks
\* the name up and runs the class, and runs[n] is what that run gives
RECURSIVE nested_parse(_, _, _)
nested_parse(content, runs, n) ==
    IF n > Len(content) THEN NoResult
    ELSE LET rest == nested_parse(content, runs, n + 1)
             e == content[n]
             here == IF e.t = "text"
                     THEN IF e.s = "" THEN NoResult
                          ELSE [NoResult EXCEPT
                                  !.nodes = <<[kind |-> "paragraph", text |-> e.s,
                                               indent |-> e.indent]>>]
                     ELSE IF e.t = "directive"
                     THEN runs[n]
                     ELSE [NoResult EXCEPT
                             !.nodes = <<[kind |-> "paragraph", text |-> e.t, indent |-> 0]>>]
         IN  [nodes |-> here.nodes \o rest.nodes,
              errors |-> here.errors \o rest.errors,
              parses |-> here.parses \o rest.parses]

\* lines 113-143: Directive.run
DirectiveRun(inv, runs) ==
    LET line == inv.lineno
        argument == IF inv.arguments # <<>>
                    THEN <<[kind |-> "argument", text |-> inv.arguments[1][1],
                            line |-> line]>>
                    ELSE <<>>
        options == StrDict(parse_options(inv.block))
        special == inv.name \in SPECIAL_DIRECTIVES
        parsed == IF special THEN NoResult ELSE nested_parse(inv.content, runs, 1)
        body == IF special THEN <<RawChild(inv.content, line)>> ELSE parsed.nodes
    IN  [nodes |-> <<[kind |-> "directive", name |-> inv.name, line |-> line,
                      options |-> options, children |-> argument \o body]>>,
         errors |-> parsed.errors,
         parses |-> IF special THEN <<>> ELSE <<inv.content>> \o parsed.parses]

\* lines 222-244: make_tab_node; the content of a legacy item is lines of text
make_tab_node(inv, child) ==
    LET line == inv.lineno + child.line
        content_lines == prepare_viewlist(child.content)
        parsed == nested_parse(content_lines, <<>>, 1)
    IN  [nodes |-> <<[kind |-> "directive", name |-> <<"tab">>, line |-> line,
                      options |-> <<>>,
                      children |-> <<[kind |-> "argument", text |-> child.id.v,
                                      line |-> line]>> \o parsed.nodes]>>,
         errors |-> parsed.errors,
         parses |-> <<content_lines>> \o parsed.parses]

\* lines 214-215: for child in loaded.tabs: node.append(self.make_tab_node(...))
RECURSIVE tab_nodes(_, _, _)
tab_nodes(inv, tabs, n) ==
    IF n > Len(tabs) THEN NoResult
    ELSE LET t == make_tab_node(inv, tabs[n])
             rest == tab_nodes(inv, tabs, n + 1)
         IN  [nodes |-> t.nodes \o rest.nodes,
              errors |-> t.errors \o rest.errors,
              parses |-> t.parses \o rest.parses]

\* lines 185-220: TabsDirective.run
TabsDirectiveRun(inv, runs) ==
    IF \E n \in 1..Len(inv.content) : inv.content[n].t = "tabs:"
    THEN LET parsed == load_yaml(inv.content)
             loaded == check_type(parsed)
         IN  IF ~loaded.ok
             THEN LET line == ErrorLine(inv.lineno, loaded.bad_line)
                  IN  [nodes |-> <<[kind |-> "system_message", level |-> "ERROR",
                                    line |-> line]>>,
                       errors |-> <<[line |-> line]>>,
                       parses |-> <<>>]
             ELSE LET tabs == tab_nodes(inv, parsed.tabs, 1)
                  IN  [nodes |-> <<[kind |-> "directive", name |-> <<"tabs">>,
                                    line |-> inv.lineno,
                                    options |-> LegacyOptions(parsed.hidden, Tabset(inv.name)),
                                    children |-> tabs.nodes]>>,
                       errors |-> tabs.errors,
                       parses |-> tabs.parses]
    ELSE DirectiveRun(inv, runs)

\* what the engine gets from the directive blocks nested in the body of inv:
\* per entry, the run of the class lookup_directive gives for its name
RECURSIVE nested_runs(_)
nested_runs(inv) ==
    [n \in 1..Len(inv.content) |->
        IF inv.content[n].t = "directive"
        THEN LET e == inv.content[n].inv
             IN  IF lookup_directive(e.name) = "TabsDirective"
                 THEN TabsDirectiveRun(e, nested_runs(e))
                 ELSE DirectiveRun(e, nested_runs(e))
        ELSE NoResult]

----------------------------------------------------------------------------
(* the documents parsed *)

TabFamilyNames ==
    {<<"tabs">>, <<"tabs", "-", "drivers">>, <<"tabs", "-", "platforms">>,
     <<"tabs", "-", "tabs">>, <<"tabs", "-">>, <<"tabs", "x">>, <<"tabs", "x", "-", "y">>}

OtherNames == {<<"code", "-", "block">>, <<"include">>, <<"only">>, <<"note">>}

IdScalars == {[ty |-> "str", v |-> "x"], [ty |-> "str", v |-> "y"], [ty |-> "int", v |-> "5"]}

HiddenValues == {"None", "true", "false", "5"}

ItemContents == {<<T(0, "p")>>, <<T(0, ""), T(2, "p"), T(4, "q")>>}

\* a legacy definition: the hidden flag and the tabs, as written
LegacyDefs ==
    [hidden : HiddenValues, items : SeqsUpTo([id : IdScalars, content : ItemContents], MaxTabs)]

\* the lines an entry of the body takes in the block text
Render(content) ==
    LET RECURSIVE R(_)
        R(n) ==
            IF n > Len(content) THEN <<>>
            ELSE LET e == content[n]
                 IN  (IF e.t = "text"
                      THEN <<IF e.s = "" THEN BlankLine
                             ELSE [indent |-> 3 + e.indent, kind |-> "text",
                                   key |-> NoKey, text |-> e.s]>>
                      ELSE <<[indent |-> 3, kind |-> "text", key |-> NoKey, text |-> e.t]>>)
                     \o R(n + 1)
    IN  R(1)

MkInv(name, lineno, arguments, optlines, content) ==
    [name |-> name, lineno |-> lineno, arguments |-> arguments,
     block |-> <<InvocationLine>> \o optlines
               \o (IF content = <<>> THEN <<>> ELSE <<BlankLine>> \o Render(content)),
     content |-> content]

\* the body of a legacy definition: `hidden: v`, `tabs:`, the items; an item
\* takes its `- id:` line, its `content: |` line and its content lines
LegacyContent(def) ==
    LET head == (IF def.hidden = "None" THEN <<>> ELSE <<[t |-> "hidden:", v |-> def.hidden]>>)
                \o <<[t |-> "tabs:"]>>
        RECURSIVE Items(_, _)
        Items(n, at) ==
            IF n > Len(def.items) THEN <<>>
            ELSE <<[t |-> "item", line |-> at, id |-> def.items[n].id,
                    content |-> def.items[n].content]>>
                 \o Items(n + 1, at + 2 + Len(def.items[n].content))
    IN  head \o Items(1, Len(head))

LegacyInv(name, lineno, def) == MkInv(name, lineno, <<>>, <<>>, LegacyContent(def))

OptionLine(key, value) == [indent |-> 3, kind |-> "marker", key |-> key, text |-> value]

\* the same tabs in the current syntax: the `:hidden:` option and one
\* `.. tab:: id` block per tab
CurrentInv(name, lineno, def) ==
    MkInv(name, lineno, <<>>,
          IF def.hidden = "None" THEN <<>> ELSE <<OptionLine("hidden", def.hidden)>>,
          [n \in 1..Len(def.items) |->
              [t |-> "directive",
               inv |-> MkInv(<<"tab">>, lineno + n, <<<<def.items[n].id.v>>>>, <<>>,
                             def.items[n].content)]])

OtherInvs(lineno) ==
    {MkInv(name, lineno, arguments, optlines, content) :
        name \in OtherNames,
        arguments \in {<<>>, <<<<"arg">>>>},
        optlines \in {<<>>, <<OptionLine("key", "a")>>},
        content \in {<<>>, <<T(0, "p")>>, <<T(0, "p"), T(2, "q")>>}}

ValidDefs == {def \in LegacyDefs :
                /\ def.hidden # "5"
                /\ \A n \in 1..Len(def.items) : def.items[n].id.ty = "str"}

\* one directive; the same tabs in the legacy and then in the current syntax;
\* a legacy body that fails validation and then another directive
Documents ==
    {<<inv>> : inv \in OtherInvs(1)}
    \cup {<<LegacyInv(name, 1, def)>> : name \in TabFamilyNames, def \in LegacyDefs}
    \cup {<<LegacyInv(name, 1, def), CurrentInv(name, 20, def)>> :
            name \in TabFamilyNames, def \in ValidDefs}
    \cup {<<LegacyInv(<<"tabs">>, 1, def), inv>> :
            def \in LegacyDefs \ ValidDefs, inv \in OtherInvs(20)}

----------------------------------------------------------------------------
(* the state machine *)

optVars == <<lines, i, current_key, kv, base_indentation>>

roleVars == <<role_in, role_node>>

docVars == <<doc, pos, cls, out>>

OptionsIdle ==
    /\ lines = <<>> /\ i = 0 /\ current_key = NoKey /\ kv = <<>>
    /\ base_indentation = 0

RoleIdle == role_in = [name |-> "", text |-> <<>>, lineno |-> 0] /\ role_node = NoNode

DocIdle == doc = <<>> /\ pos = 0 /\ cls = "none" /\ out = <<>>

InitOptions ==
    /\ call = "parse_options"
    /\ pc = "loop"
    /\ lines \in BlockTexts
    /\ i = 1
    /\ current_key = NoKey
    /\ kv = <<>>
    /\ base_indentation = 0
    /\ RoleIdle /\ DocIdle

InitRole ==
    /\ call = "handle_role"
    /\ pc = "call"
    /\ role_in \in [name : RoleNames, text : RoleTexts, lineno : {1}]
    /\ role_node = NoNode
    /\ OptionsIdle /\ DocIdle

InitParse ==
    /\ call = "parse"
    /\ pc = "lookup"
    /\ doc \in Documents
    /\ pos = 1
    /\ cls = "none"
    /\ out = <<>>
    /\ OptionsIdle /\ RoleIdle

Init == InitOptions \/ InitRole \/ InitParse

\* lines 76-78: the first line (the invocation) is skipped
SkipInvocationLine ==
    /\ call = "parse_options" /\ pc = "loop"
    /\ i = 1 /\ i <= Len(lines)
    /\ i' = i + 1
    /\ UNCHANGED <<call, pc, lines, current_key, kv, base_indentation, roleVars, docVars>>

\* lines 80-103: one iteration of the loop
ScanLine ==
    /\ call = "parse_options" /\ pc = "loop"
    /\ i > 1 /\ i <= Len(lines)
    /\ LET st == ScanStep([current_key |-> current_key, kv |-> kv,
                           base_indentation |-> base_indentation, stop |-> FALSE],
                          lines[i])
       IN  /\ current_key' = st.current_key
           /\ kv' = st.kv
           /\ base_indentation' = st.base_indentation
           /\ pc' = IF st.stop THEN "returned" ELSE "loop"
           /\ i' = IF st.stop THEN i ELSE i + 1
    /\ UNCHANGED <<call, lines, roleVars, docVars>>

\* line 105: return kv, the lines exhausted
ReturnOptions ==
    /\ call = "parse_options" /\ pc = "loop"
    /\ i > Len(lines)
    /\ pc' = "returned"
    /\ UNCHANGED <<call, optVars, roleVars, docVars>>

\* lines 247-251: handle_role
HandleRole ==
    /\ call = "handle_role" /\ pc = "call"
    /\ role_node' = RoleNode(role_in.name, role_in.text, role_in.lineno)
    /\ pc' = "returned"
    /\ UNCHANGED <<call, optVars, role_in, docVars>>

\* lines 254-259: the markup engine asks lookup_directive for the class of
\* the next directive of the document
LookupDirective ==
    /\ call = "parse" /\ pc = "lookup"
    /\ pos <= Len(doc)
    /\ cls' = lookup_directive(doc[pos].name)
    /\ pc' = "run"
    /\ UNCHANGED <<call, optVars, roleVars, doc, pos, out>>

\* lines 113-143: the engine runs a Directive
RunDirective ==
    /\ call = "parse" /\ pc = "run"
    /\ cls = "Directive"
    /\ out' = Append(out, DirectiveRun(doc[pos], nested_runs(doc[pos])))
    /\ pos' = pos + 1
    /\ cls' = "none"
    /\ pc' = "lookup"
    /\ UNCHANGED <<call, optVars, roleVars, doc>>

\* lines 185-220: the engine runs a TabsDirective
RunTabsDirective ==
    /\ call = "parse" /\ pc = "run"
    /\ cls = "TabsDirective"
    /\ out' = Append(out, TabsDirectiveRun(doc[pos], nested_runs(doc[pos])))
    /\ pos' = pos + 1
    /\ cls' = "none"
    /\ pc' = "lookup"
    /\ UNCHANGED <<call, optVars, roleVars, doc>>

\* lines 304-308: the document is parsed
FinishParse ==
    /\ call = "parse" /\ pc = "lookup"
    /\ pos > Len(doc)
    /\ pc' = "returned"
    /\ UNCHANGED <<call, optVars, roleVars, docVars>>

Next ==
    \/ SkipInvocationLine \/ ScanLine \/ ReturnOptions
    \/ HandleRole
    \/ LookupDirective \/ RunDirective \/ RunTabsDirective \/ FinishParse

Spec == Init /\ [][Next]_vars

----------------------------------------------------------------------------
(* Claims about parse_options *)

Scanning == call = "parse_options"

Returned == call = "parse_options" /\ pc = "returned"

\* the index of the first non-blank line after the invocation line, 0 if none
FirstNonBlank(ls) ==
    LET nb == {j \in 2..Len(ls) : ls[j].kind # "blank"}
    IN  IF nb = {} THEN 0 ELSE CHOOSE j \in nb : \A m \in nb : j <= m

\* the lines the loop has gone through: those before i, and line i after a break
Examined(j) == j < i \/ (pc = "returned" /\ j <= i)

C4Block ==
    <<InvocationLine,
      [indent |-> 0, kind |-> "marker", key |-> "key", text |-> "a"],
      [indent |-> 3, kind |-> "text", key |-> NoKey, text |-> "b"],
      [indent |-> 3, kind |-> "text", key |-> NoKey, text |-> "c"]>>

\* C4: on the block `:key: a`, `   b`, `   c` parse_options returns a mapping
\* in which key has the value "a\nb\nc".
C4_ContinuationValue ==
    (Returned /\ lines = C4Block) =>
        (DictHas(kv, "key") /\ DictGet(kv, "key") = <<"a", "b", "c">>)

\* C7: once the first non-blank line after the invocation line has been seen,
\* the base indentation is that line's indentation, for the rest of the scan.
C7_BaseIndentationIsFirstNonBlank ==
    Scanning =>
        \A j \in 2..Len(lines) :
            (j = FirstNonBlank(lines) /\ Examined(j)) => base_indentation = lines[j].indent

\* C8: a non-blank line that is no field marker is appended to a value only
\* when it is indented strictly deeper than the base indentation.
C8_AppendOnlyDeeper ==
    [][(/\ Scanning /\ pc = "loop" /\ i > 1 /\ i <= Len(lines)
        /\ lines[i].kind = "text"
        /\ kv' # kv)
       => lines[i].indent > base_indentation']_vars

\* C10: parse_options returns a non-empty mapping exactly when the first
\* non-blank line after the invocation line is a field marker, and while no
\* key is active the scan has gone past blank lines only.
C10_NonEmptyIffFirstIsMarker ==
    /\ Returned =>
         ((kv # <<>>) <=>
            (FirstNonBlank(lines) # 0 /\ lines[FirstNonBlank(lines)].kind = "marker"))
    /\ (Scanning /\ pc = "loop" /\ current_key = NoKey) =>
         \A j \in 2..(i - 1) : lines[j].kind = "blank"

\* a block whose first non-blank line is plain text and which has a field
\* marker further down, scanned to the end: nothing is recovered
C10_Witness ==
    /\ Returned
    /\ kv = <<>>
    /\ FirstNonBlank(lines) # 0
    /\ lines[FirstNonBlank(lines)].kind = "text"
    /\ \E j \in (FirstNonBlank(lines) + 1)..Len(lines) : lines[j].kind = "marker"

----------------------------------------------------------------------------
(* Claims about role *)

Built == call = "handle_role" /\ pc = "returned"

\* text[j] is a "<" that no escape marker precedes
Unescaped(text, j) == text[j] = "<" /\ (j = 1 \/ text[j - 1] # "NUL")

UnescapedAt(text) == {j \in 1..Len(text) : Unescaped(text, j)}

Min(S) == CHOOSE x \in S : \A y \in S : x <= y

Max(S) == CHOOSE x \in S : \A y \in S : x >= y

\* text without its trailing whitespace, its first character always kept
RECURSIVE RStripKeepFirst(_)
RStripKeepFirst(t) ==
    IF Len(t) > 1 /\ t[Len(t)] \in Whitespace
    THEN RStripKeepFirst(SubSeq(t, 1, Len(t) - 1))
    ELSE t

ClosingAt(text) ==
    LET n == Len(text)
    IN  IF n >= 1 /\ text[n] = ">" THEN n
        ELSE IF n >= 2 /\ text[n] = "\n" /\ text[n - 1] = ">" THEN n - 1
        ELSE 0

\* the unescaped "<" that are not the first character
SplitsAt(text) == UnescapedAt(text) \ {1}

SeveralSplits(text) ==
    /\ Len(text) >= 1 /\ text[Len(text)] = ">"
    /\ Cardinality(UnescapedAt(text)) >= 2

----------------------------------------------------------------------------
(* Claims about Directive.run and TabsDirective.run *)

\* directive n of the document has been run
Ran(n) == call = "parse" /\ n \in 1..Len(out)

InTabFamily(name) == Len(name) >= 1 /\ name[1] = "tabs"

HasTabsLine(inv) == \E n \in 1..Len(inv.content) : inv.content[n].t = "tabs:"

\* the run of inv takes the migration branch of TabsDirective.run
IsLegacy(inv) == InTabFamily(inv.name) /\ HasTabsLine(inv)

VerbatimNames ==
    {<<"code", "-", "block">>, <<"include">>, <<"only">>, <<"tabs">>,
     <<"tabs", "-", "drivers">>, <<"tabs", "-", "platforms">>}

\* the children of a directive node after its argument
BodyChildren(node) ==
    IF node.children # <<>> /\ node.children[1].kind = "argument"
    THEN Tail(node.children)
    ELSE node.children

\* C1: a directive of the verbatim set built by Directive.run has one body
\* child, a raw-content node whose text is the body as written, and its body
\* is not parsed.
C1_VerbatimBody ==
    \A n \in 1..Len(out) :
        (Ran(n) /\ doc[n].name \in VerbatimNames /\ ~IsLegacy(doc[n])) =>
            /\ Len(out[n].nodes) = 1
            /\ Len(BodyChildren(out[n].nodes[1])) = 1
            /\ BodyChildren(out[n].nodes[1])[1].kind = "raw"
            /\ BodyChildren(out[n].nodes[1])[1].text = doc[n].content
            /\ out[n].parses = <<>>

\* a node without the source lines of the nodes in it
RECURSIVE Structure(_)
Structure(node) ==
    IF node.kind = "directive"
    THEN [kind |-> "directive", name |-> node.name, options |-> node.options,
          children |-> [n \in 1..Len(node.children) |-> Structure(node.children[n])]]
    ELSE IF node.kind \in {"argument", "raw"}
    THEN [kind |-> node.kind, text |-> node.text]
    ELSE IF node.kind = "system_message"
    THEN [kind |-> node.kind, level |-> node.level]
    ELSE node

\* the tabs a legacy body describes
LegacyTabs(inv) ==
    LET its == SelectSeq(inv.content, LAMBDA e : e.t = "item")
    IN  [name |-> inv.name,
         hidden |-> \E n \in 1..Len(inv.content) :
                        inv.content[n].t = "hidden:" /\ inv.content[n].v = "true",
         ids |-> [n \in 1..Len(its) |-> its[n].id.v],
         contents |-> [n \in 1..Len(its) |-> its[n].content]]

\* the tabs a body in the current syntax describes
CurrentTabs(inv) ==
    LET its == SelectSeq(inv.content, LAMBDA e : e.t = "directive")
    IN  [name |-> inv.name,
         hidden |-> \E n \in 2..Len(inv.block) :
                        /\ inv.block[n].kind = "marker" /\ inv.block[n].key = "hidden"
                        /\ inv.block[n].text = "true",
         ids |-> [n \in 1..Len(its) |-> its[n].inv.arguments[1][1]],
         contents |-> [n \in 1..Len(its) |-> its[n].inv.content]]

\* C2: the same tabs written in the legacy syntax and in the current syntax
\* give trees that differ in source lines only.
C2_LegacyCurrentSameTree ==
    \A m, n \in 1..Len(out) :
        (/\ Ran(m) /\ Ran(n)
         /\ IsLegacy(doc[m])
         /\ InTabFamily(doc[n].name) /\ ~HasTabsLine(doc[n])
         /\ LegacyTabs(doc[m]) = CurrentTabs(doc[n]))
        => /\ Len(out[m].nodes) = Len(out[n].nodes)
           /\ \A c \in 1..Len(out[m].nodes) :
                Structure(out[m].nodes[c]) = Structure(out[n].nodes[c])

\* the legacy body fails validation: a hidden flag that is no boolean, or an
\* item whose id is no string
BadItems(inv) ==
    {n \in 1..Len(inv.content) : inv.content[n].t = "item" /\ inv.content[n].id.ty # "str"}

BadHidden(inv) ==
    \E n \in 1..Len(inv.content) :
        inv.content[n].t = "hidden:" /\ inv.content[n].v \notin {"true", "false"}

Invalid(inv) == BadHidden(inv) \/ BadItems(inv) # {}

\* the offset tracked for the mapping that holds the mistyped field: the
\* definition itself, or the first bad item
OffendingOffset(inv) ==
    IF BadHidden(inv) THEN 0 ELSE inv.content[Min(BadItems(inv))].line

\* C5: a legacy body that fails validation gives one node, the error marker,
\* reported once at line = directive line + offending offset + 1; no directive
\* node is built and no item content is parsed.
C5_InvalidLegacyOneError ==
    \A n \in 1..Len(out) :
        (Ran(n) /\ IsLegacy(doc[n]) /\ Invalid(doc[n])) =>
            LET line == doc[n].lineno + OffendingOffset(doc[n]) + 1
            IN  /\ out[n].nodes =
                      <<[kind |-> "system_message", level |-> "ERROR", line |-> line]>>
                /\ out[n].errors = <<[line |-> line]>>
                /\ out[n].parses = <<>>

\* an invalid legacy body whose bad item comes after a well-formed one has
\* been run, and the directive after it in the document has been run too
C5_Witness ==
    /\ Ran(1) /\ Ran(2)
    /\ IsLegacy(doc[1]) /\ ~BadHidden(doc[1]) /\ BadItems(doc[1]) # {}
    /\ \E n \in 1..Len(doc[1].content) :
          /\ doc[1].content[n].t = "item" /\ n < Min(BadItems(doc[1]))
    /\ out[1].nodes[1].kind = "system_message"
    /\ out[2].nodes[1].kind = "directive"

\* the part of a name after its first separator; <<>> if it has no separator
Suffix(name) ==
    LET seps == {n \in 1..Len(name) : name[n] = "-"}
    IN  IF seps = {} THEN <<>> ELSE SubSeq(name, Min(seps) + 1, Len(name))

\* C6: a successful migration gives a node named tabs whose options are
\* hidden: true exactly when the legacy flag is set, then tabset: <suffix>
\* exactly when the invoked name has a suffix after the separator that is not
\* `tabs`.
C6_LegacyOptions ==
    \A n \in 1..Len(out) :
        (Ran(n) /\ IsLegacy(doc[n]) /\ ~Invalid(doc[n])) =>
            /\ Len(out[n].nodes) = 1
            /\ out[n].nodes[1].kind = "directive"
            /\ out[n].nodes[1].name = <<"tabs">>
            /\ out[n].nodes[1].options =
                  (IF LegacyTabs(doc[n]).hidden
                   THEN <<[k |-> "hidden", v |-> [py |-> "bool", s |-> <<"True">>]]>>
                   ELSE <<>>)
                  \o (IF Suffix(doc[n].name) # <<>> /\ Suffix(doc[n].name) # <<"tabs">>
                      THEN <<[k |-> "tabset",
                              v |-> [py |-> "str", s |-> Suffix(doc[n].name)]]>>
                      ELSE <<>>)

====
